---- MODULE Spec2Model ----
(***************************************************************************)
(* Link Grammar core: expansion of dictionary expressions into clauses and *)
(* disjuncts (prepare/build-disjuncts.c), sentence preparation             *)
(* (parse/preparation.c) and the tracon set (tracon-set.c, kept in         *)
(* dict-common/dict-defines.h of this tree).                               *)
(*                                                                         *)
(* Pointers are indices into the pool (a sequence) they point into; 0 is   *)
(* NULL.  Costs are integers: node number i of an expression carries the   *)
(* cost 3^(i-1), so that a total cost names the nodes that were added into *)
(* it and shows a node that was added twice.                               *)
(***************************************************************************)
EXTENDS Integers, Sequences, FiniteSets, TLC

VARIABLES
  length,         \* sent->length
  word_x,         \* sent->word[w].x->exp : the Exp nodes of word w (one X_node per word)
  word_d,         \* sent->word[w].d : head of the disjunct list of word w
  Connector_pool, \* sent->Connector_pool
  Disjunct_pool,  \* sent->Disjunct_pool
  Clause_pool,    \* sent->Clause_pool
  Tconnector_pool,\* sent->Tconnector_pool
  cost_cutoff,    \* opts->disjunct_cost
  max_disjuncts,  \* opts->max_disjuncts
  rand_state,     \* sent->rand_state
  pc,             \* position in prepare_to_parse
  w,              \* the word being worked on
  c,              \* build_disjuncts_for_exp: Clause *c
  dis,            \* build_disjuncts_for_exp: Disjunct *dis
  ss,             \* the Tracon_set
  added,          \* chains handed to tracon_set_add since the last reset, in order
  exhausted       \* resources_exhausted(opts->resources): the budget has run out

vars == <<length, word_x, word_d, Connector_pool, Disjunct_pool, Clause_pool,
          Tconnector_pool, cost_cutoff, max_disjuncts, rand_state, pc, w, c,
          dis, ss, added, exhausted>>

sentvars == <<length, word_x, word_d, Connector_pool, Disjunct_pool, Clause_pool,
              Tconnector_pool, cost_cutoff, max_disjuncts, rand_state, pc, w, c,
              dis, exhausted>>

NULL == 0

----------------------------------------------------------------------------
(* Bounds *)

MaxNodes == 4      \* nodes of the expression of a one-word sentence
MaxLen == 3        \* words of a sentence
MaxDj == 2         \* the non-zero max_disjuncts setting

RECURSIVE Pow3(_)
Pow3(n) == IF n = 0 THEN 1 ELSE 3 * Pow3(n - 1)

RECURSIVE SumSet(_)
SumSet(S) == IF S = {} THEN 0
             ELSE LET x == CHOOSE y \in S : TRUE IN x + SumSet(S \ {x})

----------------------------------------------------------------------------
(* Expression trees: struct Exp_struct.  An expression is the sequence of  *)
(* its nodes in preorder; node 1 is the root.                              *)

Aplus == [type |-> "CONNECTOR_type", dir |-> "+", condesc |-> "A", multi |-> FALSE]
Aminus == [type |-> "CONNECTOR_type", dir |-> "-", condesc |-> "A", multi |-> FALSE]
Bplus == [type |-> "CONNECTOR_type", dir |-> "+", condesc |-> "B", multi |-> TRUE]
AndNode == [type |-> "AND_type", dir |-> "", condesc |-> "", multi |-> FALSE]
OrNode == [type |-> "OR_type", dir |-> "", condesc |-> "", multi |-> FALSE]

\* a node whose type is none of AND_type, OR_type and CONNECTOR_type
BadNode == [type |-> "unknown", dir |-> "", condesc |-> "", multi |-> FALSE]

LeafKinds == { Aplus, Aminus, Bplus }

NodeKinds == { AndNode, OrNode } \cup LeafKinds

RECURSIVE AncSelf(_, _)
AncSelf(p, j) == IF j = 1 THEN {1} ELSE {j} \cup AncSelf(p, p[j])

\* parent functions of the ordered trees with n nodes numbered in preorder
ParentFns(n) == { p \in [2..n -> 1..(n-1)] :
                    \A i \in 2..n : p[i] < i /\ p[i] \in AncSelf(p, i - 1) }

Children(p, n, j) == { i \in 2..n : p[i] = j }

MinOrNull(S) == IF S = {} THEN NULL ELSE CHOOSE x \in S : \A y \in S : x <= y

MkExp(p, n, kind) ==
  [ i \in 1..n |->
      [ type |-> kind[i].type,
        cost |-> Pow3(i - 1),
        operand_first |-> MinOrNull(Children(p, n, i)),
        operand_next |-> IF i = 1 THEN NULL
                         ELSE MinOrNull({ k \in Children(p, n, p[i]) : k > i }),
        dir |-> kind[i].dir,
        condesc |-> kind[i].condesc,
        multi |-> kind[i].multi,
        pos |-> 0 ] ]

ExpsOfSize(n) ==
  { MkExp(pk[1], n, pk[2]) :
      pk \in { q \in ParentFns(n) \X [1..n -> NodeKinds] :
                 \A i \in 1..n : Children(q[1], n, i) # {} => q[2][i] \notin LeafKinds } }

\* every expression of at most MaxNodes nodes
Exps == UNION { ExpsOfSize(n) : n \in 1..MaxNodes }

----------------------------------------------------------------------------
(* prepare/build-disjuncts.c : clauses                                     *)

\* the Tconnectors from t along next
RECURSIVE TList(_, _)
TList(tp, t) == IF t = NULL THEN <<>> ELSE <<t>> \o TList(tp, tp[t].next)

\* the Clauses from cl along next
RECURSIVE CList(_, _)
CList(cp, cl) == IF cl = NULL THEN <<>> ELSE <<cl>> \o CList(cp, cp[cl].next)

\* catenate copying e2 in front of e1
catenate_Swapped(e1, e2, tp) ==
  LET src == TList(tp, e2)
      n == Len(src)
      base == Len(tp)
      newe == [ k \in 1..n |->
                  [ tp[src[k]] EXCEPT !.next = IF k < n THEN base + k + 1 ELSE e1 ] ]
  IN [ tp |-> tp \o newe, head |-> IF n = 0 THEN e1 ELSE base + 1 ]

\* catenate(e1, e2, tp): the pool after the call and the list returned
catenate(e1, e2, tp) ==
  LET src == TList(tp, e1)
      n == Len(src)
      base == Len(tp)
      newe == [ k \in 1..n |->
                  [ tp[src[k]] EXCEPT !.next = IF k < n THEN base + k + 1 ELSE e2 ] ]
  IN [ tp |-> tp \o newe, head |-> IF n = 0 THEN e2 ELSE base + 1 ]

\* the state build_clause works on
ClauseCtx(cp, tp, exp, exp_pos) ==
  [ cl |-> cp, tc |-> tp, exp |-> exp, exp_pos |-> exp_pos, abort |-> FALSE ]

Abort(st) == [ st |-> [st EXCEPT !.abort = TRUE], c |-> NULL, last |-> NULL ]

\* build_terminal leaving ct->exp_pos as it is
build_terminal_SamePos(e, st) ==
  [ st |-> [ st EXCEPT !.tc = Append(@, [next |-> NULL, e |-> e, tracon |-> NULL]),
                       !.exp[e].pos = st.exp_pos ],
    c |-> Len(st.tc) + 1 ]

\* build_terminal(e, ct)
build_terminal(e, st) ==
  [ st |-> [ st EXCEPT !.tc = Append(@, [next |-> NULL, e |-> e, tracon |-> NULL]),
                       !.exp[e].pos = st.exp_pos,
                       !.exp_pos = @ + 1 ],
    c |-> Len(st.tc) + 1 ]

\* add_cost adding the cost to the first clause of the list only
add_cost_FirstOnly(cp, cl, cost) ==
  [ i \in 1..Len(cp) |->
      IF i = cl THEN [ cp[i] EXCEPT !.totcost = @ + cost ] ELSE cp[i] ]

\* for (c1 = c; c1 != NULL; c1 = c1->next) c1->totcost += cost;
add_cost(cp, cl, cost) ==
  LET ids == CList(cp, cl)
      S == { ids[k] : k \in 1..Len(ids) }
  IN [ i \in 1..Len(cp) |->
         IF i \in S THEN [ cp[i] EXCEPT !.totcost = @ + cost ] ELSE cp[i] ]

\* the body of the c3/c4 loops of the AND case, for the pairs from k on:
\* c5 is allocated, filled and pushed on c_head
RECURSIVE and_product(_, _, _, _, _)
and_product(pairs, k, c_head, last, st) ==
  IF k > Len(pairs) THEN [ st |-> st, c |-> c_head, last |-> last ]
  ELSE
    LET c3 == pairs[k][1]
        c4 == pairs[k][2]
        c5 == Len(st.cl) + 1
        cat == catenate(st.cl[c4].c, st.cl[c3].c, st.tc)
        rec == [ next |-> c_head, c |-> cat.head,
                 totcost |-> st.cl[c3].totcost + st.cl[c4].totcost ]
    IN and_product(pairs, k + 1, c5,
                   IF c_head = NULL THEN c5 ELSE last,
                   [ st EXCEPT !.cl = Append(@, rec), !.tc = cat.tp ])

\* LoopPairs leaving the c4 loop after its first round
LoopPairs_NoInner(l3, l4) == [ k \in 1..Len(l3) |-> << l3[k], l4[1] >> ]

\* the pairs (c3, c4) in the order the nested loops visit them
LoopPairs(l3, l4) ==
  [ k \in 1..(Len(l3) * Len(l4)) |->
      << l3[((k - 1) \div Len(l4)) + 1], l4[((k - 1) % Len(l4)) + 1] >> ]

RECURSIVE build_clause(_, _)
RECURSIVE and_operands(_, _, _, _)
RECURSIVE or_operands(_, _, _, _)

\* the operand loop of the AND case from operand opd on
and_operands(opd, cl, last, st) ==
  IF opd = NULL THEN [ st |-> st, c |-> cl, last |-> last ]
  ELSE
    LET r2 == build_clause(opd, st)
    IN IF r2.st.abort THEN Abort(r2.st)
       ELSE
         LET pairs == LoopPairs(CList(r2.st.cl, cl), CList(r2.st.cl, r2.c))
             r == and_product(pairs, 1, NULL, last, r2.st)
         IN and_operands(r.st.exp[opd].operand_next, r.c, r.last, r.st)

\* the operand loop of the OR case from operand opd on
or_operands(opd, cl, or_last, st) ==
  IF opd = NULL THEN [ st |-> st, c |-> cl, last |-> or_last ]
  ELSE
    LET r == build_clause(opd, st)
    IN IF r.st.abort \/ or_last = NULL \/ r.last = NULL THEN Abort(r.st)
       ELSE or_operands(r.st.exp[opd].operand_next, cl, r.last,
                        [ r.st EXCEPT !.cl[or_last].next = r.c ])

\* build_clause(e, ct, c_last): the state after the call, the list returned
\* and the value stored through c_last (NULL when nothing is stored)
build_clause(e, st) ==
  IF st.abort \/ e = NULL THEN Abort(st)
  ELSE IF st.exp[e].type = "AND_type" THEN
    LET c0 == Len(st.cl) + 1
        st0 == [ st EXCEPT !.cl = Append(@, [next |-> NULL, c |-> NULL, totcost |-> 0]) ]
        r == and_operands(st.exp[e].operand_first, c0, NULL, st0)
    IN IF r.st.abort THEN Abort(r.st)
       ELSE [ st |-> [ r.st EXCEPT !.cl = add_cost(@, r.c, st.exp[e].cost) ],
              c |-> r.c,
              last |-> IF r.c # NULL /\ r.st.cl[r.c].next = NULL THEN r.c ELSE r.last ]
  ELSE IF st.exp[e].type = "OR_type" THEN
    LET r1 == build_clause(st.exp[e].operand_first, st)
    IN IF r1.st.abort THEN Abort(r1.st)
       ELSE
         LET r == or_operands(r1.st.exp[st.exp[e].operand_first].operand_next,
                              r1.c, r1.last, r1.st)
         IN IF r.st.abort THEN Abort(r.st)
            ELSE [ st |-> [ r.st EXCEPT !.cl = add_cost(@, r.c, st.exp[e].cost) ],
                   c |-> r.c, last |-> r.last ]
  ELSE IF st.exp[e].type = "CONNECTOR_type" THEN
    LET t == build_terminal(e, st)
        cn == Len(t.st.cl) + 1
    IN [ st |-> [ t.st EXCEPT !.cl = Append(@, [next |-> NULL, c |-> t.c,
                                                 totcost |-> st.exp[e].cost]) ],
         c |-> cn, last |-> cn ]
  ELSE Abort(st)

\* count_clause(e) of dict-common
RECURSIVE count_clause(_, _)
RECURSIVE count_operands(_, _, _, _)
count_operands(exp, opd, cnt, mult) ==
  IF opd = NULL THEN cnt
  ELSE count_operands(exp, exp[opd].operand_next,
                      IF mult THEN cnt * count_clause(exp, opd)
                      ELSE cnt + count_clause(exp, opd), mult)

count_clause(exp, e) ==
  IF exp[e].type = "AND_type" THEN count_operands(exp, exp[e].operand_first, 1, TRUE)
  ELSE IF exp[e].type = "OR_type" THEN count_operands(exp, exp[e].operand_first, 0, FALSE)
  ELSE 1

----------------------------------------------------------------------------
(* prepare/build-disjuncts.c : disjuncts                                   *)

\* connector_new on a pool that does not zero its elements
connector_new_NotZeroed(condesc) ==
  [ desc |-> condesc, multi |-> FALSE, exp_pos |-> 0, next |-> NULL,
    nearest_word |-> 0, shallow |-> FALSE, originating_gword |-> 1 ]

\* connector_new(connector_pool, condesc): the pool zeroes its elements
connector_new(condesc) ==
  [ desc |-> condesc, multi |-> FALSE, exp_pos |-> 0, next |-> NULL,
    nearest_word |-> 0, shallow |-> FALSE, originating_gword |-> NULL ]

\* *(jet[idir]) = n, where jet[idir] is &ndis->left / &ndis->right (jet = NULL
\* here) or &k->next for the connector k = jet
store_jet(b, idir, n) ==
  IF b.jet[idir] = NULL
  THEN (IF idir = 1 THEN [ b EXCEPT !.right = n ] ELSE [ b EXCEPT !.left = n ])
  ELSE [ b EXCEPT !.conn[b.jet[idir]].next = n ]

\* cache_tracon storing nothing
cache_tracon_None(b, t, n) == b

\* t->tracon = n; /* cache this tracon */
cache_tracon(b, t, n) == [ b EXCEPT !.tc[t].tracon = n ]

\* tconnector_loop adopting a cached tracon without sealing the direction
RECURSIVE tconnector_loop_NoSeal(_, _, _, _)
tconnector_loop_NoSeal(ts, k, exp, b) ==
  IF k > Len(ts) THEN b
  ELSE
    LET t == ts[k]
        e == b.tc[t].e
        idir == IF exp[e].dir = "+" THEN 1 ELSE 0
    IN IF b.tc[t].tracon # NULL THEN
         tconnector_loop_NoSeal(ts, k + 1, exp, store_jet(b, idir, b.tc[t].tracon))
       ELSE
         LET n == Len(b.conn) + 1
             rec == [ connector_new(exp[e].condesc) EXCEPT
                        !.exp_pos = exp[e].pos, !.multi = exp[e].multi ]
             b1 == cache_tracon([ b EXCEPT !.conn = Append(@, rec) ], t, n)
         IN tconnector_loop_NoSeal(ts, k + 1, exp,
              [ store_jet(b1, idir, n) EXCEPT !.jet[idir] = n ])

\* the Tconnector loop of build_disjunct over ts[k..]; b holds the pools,
\* ndis->left, ndis->right, jet[] and is_tracon[] (indexed by idir 0, 1)
RECURSIVE tconnector_loop(_, _, _, _)
tconnector_loop(ts, k, exp, b) ==
  IF k > Len(ts) THEN b
  ELSE
    LET t == ts[k]
        e == b.tc[t].e
        idir == IF exp[e].dir = "+" THEN 1 ELSE 0
    IN IF b.is_tracon[idir] THEN tconnector_loop(ts, k + 1, exp, b)
       ELSE IF b.tc[t].tracon # NULL THEN
         tconnector_loop(ts, k + 1, exp,
           [ store_jet(b, idir, b.tc[t].tracon) EXCEPT !.is_tracon[idir] = TRUE ])
       ELSE
         LET n == Len(b.conn) + 1
             rec == [ connector_new(exp[e].condesc) EXCEPT
                        !.exp_pos = exp[e].pos, !.multi = exp[e].multi ]
             b1 == cache_tracon([ b EXCEPT !.conn = Append(@, rec) ], t, n)
         IN tconnector_loop(ts, k + 1, exp,
              [ store_jet(b1, idir, n) EXCEPT !.jet[idir] = n ])

\* clause_kept skipping a clause whose cost equals the cutoff
clause_kept_Strict(clause, cutoff) == clause.c # NULL /\ clause.totcost < cutoff

\* if (NULL == cl->c) continue; if (cl->totcost > cost_cutoff) continue;
clause_kept(clause, cutoff) == clause.c # NULL /\ ~(clause.totcost > cutoff)

\* build_disjunct(sent, cl, wstring, gs, cost_cutoff, opts): the clause loop
\* from clause cl on; d holds the Connector, Disjunct and Tconnector pools and dis
RECURSIVE build_disjunct(_, _, _, _, _, _)
build_disjunct(cl, cp, exp, gs, cutoff, d) ==
  IF cl = NULL THEN d
  ELSE IF ~clause_kept(cp[cl], cutoff)
  THEN build_disjunct(cp[cl].next, cp, exp, gs, cutoff, d)
  ELSE
    LET b0 == [ conn |-> d.conn, tc |-> d.tc, left |-> NULL, right |-> NULL,
                jet |-> [ i \in {0, 1} |-> NULL ],
                is_tracon |-> [ i \in {0, 1} |-> FALSE ] ]
        b == tconnector_loop(TList(d.tc, cp[cl].c), 1, exp, b0)
        ndis == [ left |-> b.left, right |-> b.right, cost |-> cp[cl].totcost,
                  originating_gword |-> gs, next |-> d.dis ]
    IN build_disjunct(cp[cl].next, cp, exp, gs, cutoff,
         [ conn |-> b.conn, tc |-> b.tc, disj |-> Append(d.disj, ndis),
           dis |-> Len(d.disj) + 1 ])

\* the Disjuncts from d along next
RECURSIVE DList(_, _)
DList(dp, d) == IF d = NULL THEN <<>> ELSE <<d>> \o DList(dp, dp[d].next)

\* the Connectors from n along next
RECURSIVE ConList(_, _)
ConList(np, n) == IF n = NULL THEN <<>> ELSE <<n>> \o ConList(np, np[n].next)

\* count_disjuncts(d)
count_disjuncts(dp, d) == Len(DList(dp, d))

----------------------------------------------------------------------------
(* parse/preparation.c                                                     *)

\* set_dist_fields storing the value returned for c->next
RECURSIVE set_dist_fields_Late(_, _, _, _)
set_dist_fields_Late(np, n, wd, delta) ==
  IF n = NULL THEN [ conn |-> np, ret |-> wd ]
  ELSE LET r == set_dist_fields_Late(np, np[n].next, wd, delta)
       IN [ conn |-> [ r.conn EXCEPT ![n].nearest_word = r.ret ],
            ret |-> r.ret + delta ]

\* set_dist_fields counting the distance from the head of the chain
RECURSIVE set_dist_fields_FromHead(_, _, _, _)
set_dist_fields_FromHead(np, n, wd, delta) ==
  IF n = NULL THEN [ conn |-> np, ret |-> wd ]
  ELSE LET r == set_dist_fields_FromHead(np, np[n].next, wd + delta, delta)
       IN [ conn |-> [ r.conn EXCEPT ![n].nearest_word = wd + delta ],
            ret |-> r.ret ]

\* set_dist_fields adding to the nearest_word the connector has
RECURSIVE set_dist_fields_Accum(_, _, _, _)
set_dist_fields_Accum(np, n, wd, delta) ==
  IF n = NULL THEN [ conn |-> np, ret |-> wd ]
  ELSE LET r == set_dist_fields_Accum(np, np[n].next, wd, delta)
       IN [ conn |-> [ r.conn EXCEPT ![n].nearest_word = @ + r.ret + delta ],
            ret |-> np[n].nearest_word + r.ret + delta ]

\* set_dist_fields(c, w, delta): the pool after the call and the value returned
RECURSIVE set_dist_fields(_, _, _, _)
set_dist_fields(np, n, wd, delta) ==
  IF n = NULL THEN [ conn |-> np, ret |-> wd ]
  ELSE LET r == set_dist_fields(np, np[n].next, wd, delta)
       IN [ conn |-> [ r.conn EXCEPT ![n].nearest_word = r.ret + delta ],
            ret |-> r.ret + delta ]

\* set_dist_fields(d->left, w, -1) < 0
left_too_far(ret) == ret < 0

\* right_too_far accepting a connector one word past the sentence
right_too_far_Past(ret, len) == ret > len

\* set_dist_fields(d->right, w, 1) >= (int)sent->length
right_too_far(ret, len) == ret >= len

\* the disjunct loop of setup_connectors for word wd over ds[k..];
\* s holds the Connector and Disjunct pools and head
RECURSIVE setup_word(_, _, _, _, _)
setup_word(ds, k, wd, len, s) ==
  IF k > Len(ds) THEN s
  ELSE
    LET d == ds[k]
        l == set_dist_fields(s.conn, s.disj[d].left, wd, -1)
        r == set_dist_fields(l.conn, s.disj[d].right, wd, 1)
    IN IF left_too_far(l.ret) THEN setup_word(ds, k + 1, wd, len, [ s EXCEPT !.conn = l.conn ])
       ELSE IF right_too_far(r.ret, len) THEN setup_word(ds, k + 1, wd, len, [ s EXCEPT !.conn = r.conn ])
       ELSE
         LET lf == s.disj[d].left
             rt == s.disj[d].right
             c1 == IF lf # NULL THEN [ r.conn EXCEPT ![lf].shallow = TRUE ] ELSE r.conn
             c2 == IF rt # NULL THEN [ c1 EXCEPT ![rt].shallow = TRUE ] ELSE c1
         IN setup_word(ds, k + 1, wd, len,
              [ conn |-> c2, disj |-> [ s.disj EXCEPT ![d].next = s.head ], head |-> d ])

\* setup_connectors(sent): the word loop from word wd on
RECURSIVE setup_connectors(_, _, _, _, _)
setup_connectors(wd, len, np, dp, wdl) ==
  IF wd >= len THEN [ conn |-> np, disj |-> dp, word_d |-> wdl ]
  ELSE LET s == setup_word(DList(dp, wdl[wd]), 1, wd, len,
                           [ conn |-> np, disj |-> dp, head |-> NULL ])
       IN setup_connectors(wd + 1, len, s.conn, s.disj, [ wdl EXCEPT ![wd] = s.head ])

\* the descriptors and multi flags along a chain
ChainKey(np, n) ==
  LET ids == ConList(np, n)
  IN [ k \in 1..Len(ids) |-> << np[ids[k]].desc, np[ids[k]].multi >> ]

\* two disjuncts are duplicates: identical left chains and identical right chains
disjuncts_equal(np, d1, d2) ==
  /\ ChainKey(np, d1.left) = ChainKey(np, d2.left)
  /\ ChainKey(np, d1.right) = ChainKey(np, d2.right)

\* eliminate_loop leaving the cost of the kept disjunct as it is
RECURSIVE eliminate_loop_KeepCost(_, _, _, _, _)
eliminate_loop_KeepCost(ds, k, np, dp, kept) ==
  IF k > Len(ds) THEN [ disj |-> dp, kept |-> kept ]
  ELSE
    LET d == ds[k]
        dup == { j \in 1..Len(kept) : disjuncts_equal(np, dp[kept[j]], dp[d]) }
    IN IF dup # {}
       THEN eliminate_loop_KeepCost(ds, k + 1, np, dp, kept)
       ELSE eliminate_loop_KeepCost(ds, k + 1, np, dp, Append(kept, d))

\* eliminate_duplicate_disjuncts(d, false) over ds[k..]: a disjunct equal to
\* one already kept is unlinked and the kept one takes the smaller cost;
\* kept is the sequence of the disjuncts kept so far
RECURSIVE eliminate_loop(_, _, _, _, _)
eliminate_loop(ds, k, np, dp, kept) ==
  IF k > Len(ds) THEN [ disj |-> dp, kept |-> kept ]
  ELSE
    LET d == ds[k]
        dup == { j \in 1..Len(kept) : disjuncts_equal(np, dp[kept[j]], dp[d]) }
    IN IF dup # {}
       THEN LET dx == kept[CHOOSE j \in dup : TRUE]
            IN eliminate_loop(ds, k + 1, np,
                 IF dp[d].cost < dp[dx].cost THEN [ dp EXCEPT ![dx].cost = dp[d].cost ]
                 ELSE dp, kept)
       ELSE eliminate_loop(ds, k + 1, np, dp, Append(kept, d))

\* link the disjuncts of ks into a list in this order
Relink(dp, ks) ==
  [ i \in 1..Len(dp) |->
      IF \E k \in 1..Len(ks) : ks[k] = i
      THEN LET k == CHOOSE k \in 1..Len(ks) : ks[k] = i
           IN [ dp[i] EXCEPT !.next = IF k < Len(ks) THEN ks[k + 1] ELSE NULL ]
      ELSE dp[i] ]

eliminate_duplicate_disjuncts(np, dp, d) ==
  LET r == eliminate_loop(DList(dp, d), 1, np, dp, <<>>)
  IN [ disj |-> Relink(r.disj, r.kept),
       head |-> IF Len(r.kept) = 0 THEN NULL ELSE r.kept[1] ]

\* the duplicate elimination loop of prepare_to_parse from word i on
RECURSIVE eliminate_words(_, _, _, _, _)
eliminate_words(i, len, np, dp, wdl) ==
  IF i >= len THEN [ disj |-> dp, word_d |-> wdl ]
  ELSE LET r == eliminate_duplicate_disjuncts(np, dp, wdl[i])
       IN eliminate_words(i + 1, len, np, r.disj, [ wdl EXCEPT ![i] = r.head ])

----------------------------------------------------------------------------
(* The tracon set (tracon-set.c)                                           *)

MaxAdds == 4       \* tracon_set_add calls between two resets

\* unsigned int values are pairs <<high 16 bits, low 16 bits>>
U32(hi, lo) == << hi % 65536, lo % 65536 >>
U32Add(a, b) == << (a[1] + b[1] + ((a[2] + b[2]) \div 65536)) % 65536,
                   (a[2] + b[2]) % 65536 >>
U32Mul(k, a) == << (k * a[1] + ((k * a[2]) \div 65536)) % 65536, (k * a[2]) % 65536 >>
U32Mod(a, m) == (((a[1] % m) * (65536 % m)) + (a[2] % m)) % m
\* x << 18 and x << 31: bit 18 is bit 2 and bit 31 is bit 15 of the high half
U32Shl18(x) == U32(x * 4, 0)
U32Shl31(x) == U32(x * 32768, 0)

\* the table sizes of const-prime.h
s_prime == << 3, 7, 13, 29 >>

\* connector descriptors: name, uc_num and lc_letters
DescA == [ name |-> "Aa", uc_num |-> 0, lc_letters |-> 1 ]
DescB == [ name |-> "Ab", uc_num |-> 0, lc_letters |-> 2 ]
DescC == [ name |-> "Ah", uc_num |-> 0, lc_letters |-> 8 ]
DescD == [ name |-> "B", uc_num |-> 1, lc_letters |-> 0 ]

\* the connectors chains are made of; a chain is named by its first connector
TraconConnectors ==
  << [ desc |-> DescA, multi |-> FALSE, shallow |-> TRUE, next |-> 2 ],
     [ desc |-> DescC, multi |-> FALSE, shallow |-> FALSE, next |-> NULL ],
     [ desc |-> DescB, multi |-> FALSE, shallow |-> TRUE, next |-> 4 ],
     [ desc |-> DescA, multi |-> FALSE, shallow |-> FALSE, next |-> NULL ],
     [ desc |-> DescA, multi |-> FALSE, shallow |-> FALSE, next |-> 6 ],
     [ desc |-> DescC, multi |-> FALSE, shallow |-> FALSE, next |-> NULL ],
     [ desc |-> DescA, multi |-> TRUE, shallow |-> TRUE, next |-> NULL ],
     [ desc |-> DescD, multi |-> FALSE, shallow |-> TRUE, next |-> NULL ] >>

Chains == 1..Len(TraconConnectors)

\* hash_connectors(k, c, shallow)
RECURSIVE hash_loop(_, _, _)
hash_loop(k, n, accum) ==
  IF n = NULL THEN accum
  ELSE LET cn == TraconConnectors[n]
       IN hash_loop(k, cn.next,
            U32Add(U32Add(U32Add(U32Mul(k, accum), U32Shl18(cn.desc.uc_num)),
                          U32Shl31(IF cn.multi THEN 1 ELSE 0)),
                   U32(0, cn.desc.lc_letters)))

\* hash_connectors starting from the first connector's shallow flag in
\* either mode
hash_connectors_AlwaysShallow(k, n, shallow) ==
  hash_loop(k, n, U32(0, IF TraconConnectors[n].shallow THEN 1 ELSE 0))

hash_connectors(k, n, shallow) ==
  hash_loop(k, n, U32(0, IF shallow /\ TraconConnectors[n].shallow THEN 1 ELSE 0))

primary_hash_connectors(n, set) == hash_connectors(7, n, set.shallow)

\* ss->mod_func(h)
mod_func(set, h) == U32Mod(h, s_prime[set.prime_idx + 1])

\* stride_hash_connectors returning the remainder as it is
stride_hash_connectors_MayBeZero(n, set) ==
  mod_func(set, hash_connectors(17, n, set.shallow))

\* stride_hash_connectors(c, ss): the stride is made non-zero
stride_hash_connectors(n, set) ==
  LET accum == mod_func(set, hash_connectors(17, n, set.shallow))
  IN IF accum = 0 THEN 1 ELSE accum

EmptySlot == [ clist |-> NULL, hash |-> U32(0, 0) ]

\* tracon_set_create()
tracon_set_create ==
  [ prime_idx |-> 0, size |-> s_prime[1],
    table |-> [ i \in 0..(s_prime[1] - 1) |-> EmptySlot ],
    count |-> 0, shallow |-> FALSE ]

\* tracon_set_shallow(shallow, ss)
tracon_set_shallow(shallow, set) == [ set EXCEPT !.shallow = shallow ]

\* tracon_set_reset without the memset
tracon_set_reset_NoClear(set) ==
  [ set EXCEPT !.prime_idx = 0, !.size = s_prime[1], !.count = 0 ]

\* tracon_set_reset clearing the table at the size it has
tracon_set_reset_KeepSize(set) ==
  [ set EXCEPT !.table = [ i \in DOMAIN set.table |-> EmptySlot ], !.count = 0 ]

\* tracon_set_reset(ss): the memset clears the first size slots of the table
tracon_set_reset(set) ==
  [ set EXCEPT !.prime_idx = 0, !.size = s_prime[1],
               !.table = [ i \in DOMAIN set.table |->
                             IF i < s_prime[1] THEN EmptySlot ELSE set.table[i] ],
               !.count = 0 ]

connector_equal(c1, c2) ==
  /\ TraconConnectors[c1].desc = TraconConnectors[c2].desc
  /\ TraconConnectors[c1].multi = TraconConnectors[c2].multi

RECURSIVE connector_list_equal(_, _)
connector_list_equal(c1, c2) ==
  IF c1 # NULL /\ c2 # NULL
  THEN IF ~connector_equal(c1, c2) THEN FALSE
       ELSE connector_list_equal(TraconConnectors[c1].next, TraconConnectors[c2].next)
  ELSE c1 = NULL /\ c2 = NULL

\* place_found ignoring the connectors of the chain in the slot
place_found_HashOnly(n, slot, hash, set) ==
  IF slot.clist = NULL THEN TRUE ELSE hash = slot.hash

place_found(n, slot, hash, set) ==
  IF slot.clist = NULL THEN TRUE
  ELSE IF hash # slot.hash THEN FALSE
  ELSE IF ~connector_list_equal(slot.clist, n) THEN FALSE
  ELSE IF set.shallow /\ TraconConnectors[slot.clist].shallow # TraconConnectors[n].shallow
  THEN FALSE
  ELSE connector_list_equal(slot.clist, n)

NoPlace == -1

\* the probe loop of find_place; NoPlace when it has not returned after
\* probes rounds
RECURSIVE probe_loop(_, _, _, _, _, _)
probe_loop(n, h, set, key, s, probes) ==
  IF probes = 0 THEN NoPlace
  ELSE LET k1 == key + s
           k2 == IF k1 >= set.size THEN mod_func(set, U32(0, k1)) ELSE k1
       IN IF place_found(n, set.table[k2], h, set) THEN k2
          ELSE probe_loop(n, h, set, k2, s, probes - 1)

find_place(n, h, set) ==
  LET key == mod_func(set, h)
  IN IF place_found(n, set.table[key], h, set) THEN key
     ELSE probe_loop(n, h, set, key, stride_hash_connectors(n, set), set.size)

\* grow_loop copying every slot to the same index of the new table
RECURSIVE grow_loop_SameIndex(_, _, _)
grow_loop_SameIndex(old, i, set) ==
  IF i >= old.size THEN set
  ELSE IF old.table[i].clist # NULL
  THEN grow_loop_SameIndex(old, i + 1, [ set EXCEPT !.table[i] = old.table[i] ])
  ELSE grow_loop_SameIndex(old, i + 1, set)

\* the rehash loop of grow_table over the slots i.. of the old table
RECURSIVE grow_loop(_, _, _)
grow_loop(old, i, set) ==
  IF i >= old.size THEN set
  ELSE IF old.table[i].clist # NULL
  THEN LET p == find_place(old.table[i].clist, old.table[i].hash, set)
       IN grow_loop(old, i + 1, [ set EXCEPT !.table[p] = old.table[i] ])
  ELSE grow_loop(old, i + 1, set)

grow_table(set) ==
  LET sz == s_prime[set.prime_idx + 2]
  IN grow_loop(set, 0,
       [ set EXCEPT !.prime_idx = @ + 1, !.size = sz,
                    !.table = [ i \in 0..(sz - 1) |-> EmptySlot ] ])

\* tracon_set_add growing the table when it is more than half full
tracon_set_add_HalfFull(clist, set) ==
  LET s1 == IF 8 * set.count > 4 * set.size THEN grow_table(set) ELSE set
      h == primary_hash_connectors(clist, s1)
      p == find_place(clist, h, s1)
  IN IF s1.table[p].clist # NULL
     THEN [ ss |-> s1, p |-> p ]
     ELSE [ ss |-> [ s1 EXCEPT !.table[p].hash = h, !.count = @ + 1 ], p |-> p ]

\* tracon_set_add writing no hash into the slot it takes
tracon_set_add_NoHash(clist, set) ==
  LET s1 == IF 8 * set.count > 3 * set.size THEN grow_table(set) ELSE set
      h == primary_hash_connectors(clist, s1)
      p == find_place(clist, h, s1)
  IN IF s1.table[p].clist # NULL
     THEN [ ss |-> s1, p |-> p ]
     ELSE [ ss |-> [ s1 EXCEPT !.count = @ + 1 ], p |-> p ]

\* tracon_set_add(clist, ss): the set after the call and the slot returned
tracon_set_add(clist, set) ==
  LET s1 == IF 8 * set.count > 3 * set.size THEN grow_table(set) ELSE set
      h == primary_hash_connectors(clist, s1)
      p == find_place(clist, h, s1)
  IN IF s1.table[p].clist # NULL
     THEN [ ss |-> s1, p |-> p ]
     ELSE [ ss |-> [ s1 EXCEPT !.table[p].hash = h, !.count = @ + 1 ], p |-> p ]

\* tracon_set_lookup(clist, ss)
tracon_set_lookup(clist, set) ==
  set.table[find_place(clist, primary_hash_connectors(clist, set), set)].clist

----------------------------------------------------------------------------
(* The sentences and options the model runs on                             *)

\* an expression given by the parent and the kind of each of its nodes
ExpOf(p, kind) == MkExp(p, Len(kind), kind)

\* the expressions of the words of a sentence of several words:
\*   A+    A-    A- & A+    A+ or A+    A+ & {B+}    A- & {A-}
\* and a node of unknown type
SentExps ==
  { ExpOf(<<0>>, <<BadNode>>),
    ExpOf(<<0>>, <<Aplus>>),
    ExpOf(<<0>>, <<Aminus>>),
    ExpOf(<<0, 1, 1>>, <<AndNode, Aminus, Aplus>>),
    ExpOf(<<0, 1, 1>>, <<OrNode, Aplus, Aplus>>),
    ExpOf(<<0, 1, 1, 3, 3>>, <<AndNode, Aplus, OrNode, AndNode, Bplus>>),
    ExpOf(<<0, 1, 1, 3, 3>>, <<AndNode, Aminus, OrNode, AndNode, Aminus>>) }

\* larger expressions for a sentence of one word:
\*   A- & (A+ or B+)    (A+ or B+) & (A- or A-)    A+ & A- & (B+ or A-)
\*   (A- & B+) & (A+ or (A- & A+))    A+ & B+ & (A+ or A-)
\*   (A+ or B+ or A-) & (A+ or A-)    A+ & (A- or unknown)
LargeExps ==
  { ExpOf(<<0, 1, 1, 3, 3>>, <<AndNode, Aplus, OrNode, Aminus, BadNode>>) } \cup
  { ExpOf(<<0, 1, 2, 2, 2, 1, 6, 6>>,
          <<AndNode, OrNode, Aplus, Bplus, Aminus, OrNode, Aplus, Aminus>>) } \cup
  { ExpOf(<<0, 1, 1, 1, 4, 4>>, <<AndNode, Aplus, Bplus, OrNode, Aplus, Aminus>>) } \cup
  { ExpOf(<<0, 1, 1, 3, 3>>, <<AndNode, Aminus, OrNode, Aplus, Bplus>>),
    ExpOf(<<0, 1, 2, 2, 1, 5, 5>>,
          <<AndNode, OrNode, Aplus, Bplus, OrNode, Aminus, Aminus>>),
    ExpOf(<<0, 1, 1, 1, 4, 4>>, <<AndNode, Aplus, Aminus, OrNode, Bplus, Aminus>>),
    ExpOf(<<0, 1, 2, 2, 1, 5, 5, 7, 7>>,
          <<AndNode, AndNode, Aminus, Bplus, OrNode, Aplus, AndNode, Aminus, Aplus>>) }

\* opts->disjunct_cost: a cutoff some clauses reach exactly and some exceed,
\* and one above every clause
Cutoffs == {4, 10000}

Sentences(len) == [ 0..(len - 1) -> IF len = 1 THEN Exps \cup SentExps \cup LargeExps ELSE SentExps ]

----------------------------------------------------------------------------
(* The steps of prepare_to_parse                                           *)

Init ==
  /\ length \in 1..MaxLen
  /\ word_x \in Sentences(length)
  /\ word_d = [ i \in 0..(length - 1) |-> NULL ]
  /\ Connector_pool = <<>>
  /\ Disjunct_pool = <<>>
  /\ Clause_pool = <<>>
  /\ Tconnector_pool = <<>>
  /\ cost_cutoff \in Cutoffs
  /\ max_disjuncts \in {0, MaxDj}
  /\ rand_state \in {0, 1}
  /\ pc = "build_clause"
  /\ w = 0
  /\ c = NULL
  /\ dis = NULL
  /\ ss = tracon_set_create
  /\ added = <<>>
  /\ exhausted = FALSE

\* build_disjuncts_for_exp for word w: Clause *c = build_clause(exp, &ct, NULL)
BuildClause ==
  /\ pc = "build_clause"
  /\ LET r == build_clause(1, ClauseCtx(Clause_pool, Tconnector_pool, word_x[w], 0))
     IN IF r.st.abort
        THEN /\ pc' = "aborted"
             /\ UNCHANGED <<Clause_pool, Tconnector_pool, word_x, c>>
        ELSE /\ pc' = "build_disjunct"
             /\ Clause_pool' = r.st.cl
             /\ Tconnector_pool' = r.st.tc
             /\ word_x' = [ word_x EXCEPT ![w] = r.st.exp ]
             /\ c' = r.c
  /\ UNCHANGED <<length, word_d, Connector_pool, Disjunct_pool, cost_cutoff,
                 max_disjuncts, rand_state, w, dis, ss, added, exhausted>>

\* &x->word->gword_set_head for the X_node of word wd: one set per word
gword_set_head(wd) == wd + 1

\* build_disjuncts_for_exp for word w: dis = build_disjunct(sent, c, ...)
BuildDisjunct ==
  /\ pc = "build_disjunct"
  /\ LET r == build_disjunct(c, Clause_pool, word_x[w], gword_set_head(w), cost_cutoff,
                             [ conn |-> Connector_pool, tc |-> Tconnector_pool,
                               disj |-> Disjunct_pool, dis |-> NULL ])
     IN /\ Connector_pool' = r.conn
        /\ Tconnector_pool' = r.tc
        /\ Disjunct_pool' = r.disj
        /\ dis' = r.dis
  /\ pc' = "pool_reuse"
  /\ UNCHANGED <<length, word_x, word_d, Clause_pool, cost_cutoff, max_disjuncts,
                 rand_state, w, c, ss, added, exhausted>>

\* rand_r(&rst): the state after one draw (a small linear congruential
\* generator stands for the C library's)
rand_r(rst) == (rst * 75 + 74) % 65537

RECURSIVE rand_r_times(_, _)
rand_r_times(rst, n) == IF n = 0 THEN rst ELSE rand_r_times(rand_r(rst), n - 1)

\* trim linking every kept disjunct right behind the head
trim_Prepend(dp, d, maxdj, picks) ==
  LET ds == DList(dp, d)
      keep == { k \in 2..Len(ds) : picks[k - 1] < maxdj }
      idx(j) == CHOOSE k \in keep : Cardinality({ m \in keep : m > k }) = j - 1
      ks == << ds[1] >> \o [ j \in 1..Cardinality(keep) |-> ds[idx(j)] ]
  IN Relink(dp, ks)

\* the trimming loop of build_disjuncts_for_exp; picks[k] is the pick drawn
\* for the k-th disjunct after the head
trim(dp, d, maxdj, picks) ==
  LET ds == DList(dp, d)
      keep == { 1 } \cup { k \in 2..Len(ds) : picks[k - 1] < maxdj }
      idx(j) == CHOOSE k \in keep : Cardinality({ m \in keep : m < k }) = j - 1
      ks == [ j \in 1..Cardinality(keep) |-> ds[idx(j)] ]
  IN Relink(dp, ks)

\* PoolReuse resetting the Connector pool together with the two scratch pools
PoolReuse_AllPools ==
  /\ pc = "pool_reuse"
  /\ Clause_pool' = <<>>
  /\ Tconnector_pool' = <<>>
  /\ Connector_pool' = <<>>
  /\ c' = NULL
  /\ LET discnt == count_disjuncts(Disjunct_pool, dis)
     IN IF max_disjuncts = 0 \/ discnt < max_disjuncts
        THEN UNCHANGED <<Disjunct_pool, rand_state>>
        ELSE \E picks \in [ 1..(discnt - 1) -> 0..(discnt - 1) ] :
               /\ Disjunct_pool' = trim(Disjunct_pool, dis, max_disjuncts, picks)
               /\ rand_state' = IF rand_state # 0
                                THEN rand_r_times(rand_state, discnt - 1)
                                ELSE rand_state
  /\ word_d' = [ word_d EXCEPT ![w] = dis ]
  /\ dis' = NULL
  /\ IF w + 1 < length
     THEN w' = w + 1 /\ pc' = "build_clause"
     ELSE w' = w + 1 /\ pc' = "eliminate"
  /\ UNCHANGED <<length, word_x, cost_cutoff, max_disjuncts, ss, added, exhausted>>

\* PoolReuse without the early return for max_disjuncts = 0
PoolReuse_AlwaysTrim ==
  /\ pc = "pool_reuse"
  /\ Clause_pool' = <<>>
  /\ Tconnector_pool' = <<>>
  /\ c' = NULL
  /\ LET discnt == count_disjuncts(Disjunct_pool, dis)
     IN IF discnt < max_disjuncts \/ discnt = 0
        THEN UNCHANGED <<Disjunct_pool, rand_state>>
        ELSE \E picks \in [ 1..(discnt - 1) -> 0..(discnt - 1) ] :
               /\ Disjunct_pool' = trim(Disjunct_pool, dis, max_disjuncts, picks)
               /\ rand_state' = IF rand_state # 0
                                THEN rand_r_times(rand_state, discnt - 1)
                                ELSE rand_state
  /\ word_d' = [ word_d EXCEPT ![w] = dis ]
  /\ dis' = NULL
  /\ IF w + 1 < length
     THEN w' = w + 1 /\ pc' = "build_clause"
     ELSE w' = w + 1 /\ pc' = "eliminate"
  /\ UNCHANGED <<length, word_x, Connector_pool, cost_cutoff, max_disjuncts, ss, added,
                 exhausted>>

\* build_disjuncts_for_exp for word w from pool_reuse to its return, and
\* build_sentence_disjuncts storing the result in sent->word[w].d
PoolReuse ==
  /\ pc = "pool_reuse"
  /\ Clause_pool' = <<>>
  /\ Tconnector_pool' = <<>>
  /\ c' = NULL
  /\ LET discnt == count_disjuncts(Disjunct_pool, dis)
     IN IF max_disjuncts = 0 \/ discnt < max_disjuncts
        THEN UNCHANGED <<Disjunct_pool, rand_state>>
        ELSE \E picks \in [ 1..(discnt - 1) -> 0..(discnt - 1) ] :
               /\ Disjunct_pool' = trim(Disjunct_pool, dis, max_disjuncts, picks)
               /\ rand_state' = IF rand_state # 0
                                THEN rand_r_times(rand_state, discnt - 1)
                                ELSE rand_state
  /\ word_d' = [ word_d EXCEPT ![w] = dis ]
  /\ dis' = NULL
  /\ IF w + 1 < length
     THEN w' = w + 1 /\ pc' = "build_clause"
     ELSE w' = w + 1 /\ pc' = "eliminate"
  /\ UNCHANGED <<length, word_x, Connector_pool, cost_cutoff, max_disjuncts, ss, added,
                 exhausted>>

\* EliminateDuplicates returning after the first word once the budget is out
EliminateDuplicates_Polled ==
  /\ pc = "eliminate"
  /\ LET r == eliminate_words(0, IF exhausted THEN 1 ELSE length,
                              Connector_pool, Disjunct_pool, word_d)
     IN /\ Disjunct_pool' = r.disj
        /\ word_d' = r.word_d
  /\ pc' = IF exhausted THEN "done" ELSE "setup_connectors"
  /\ UNCHANGED <<length, word_x, Connector_pool, Clause_pool, Tconnector_pool,
                 cost_cutoff, max_disjuncts, rand_state, w, c, dis, ss, added, exhausted>>

\* prepare_to_parse: the duplicate elimination loop
EliminateDuplicates ==
  /\ pc = "eliminate"
  /\ LET r == eliminate_words(0, length, Connector_pool, Disjunct_pool, word_d)
     IN /\ Disjunct_pool' = r.disj
        /\ word_d' = r.word_d
  /\ pc' = "setup_connectors"
  /\ UNCHANGED <<length, word_x, Connector_pool, Clause_pool, Tconnector_pool,
                 cost_cutoff, max_disjuncts, rand_state, w, c, dis, ss, added, exhausted>>

\* prepare_to_parse: setup_connectors(sent)
SetupConnectors ==
  /\ pc = "setup_connectors"
  /\ LET r == setup_connectors(0, length, Connector_pool, Disjunct_pool, word_d)
     IN /\ Connector_pool' = r.conn
        /\ Disjunct_pool' = r.disj
        /\ word_d' = r.word_d
  /\ pc' = "done"
  /\ UNCHANGED <<length, word_x, Clause_pool, Tconnector_pool, cost_cutoff,
                 max_disjuncts, rand_state, w, c, dis, ss, added, exhausted>>

\* the sentence's resource budget runs out while prepare_to_parse is at work
ResourcesExhausted ==
  /\ pc \notin {"done", "aborted"}
  /\ ~exhausted
  /\ exhausted' = TRUE
  /\ UNCHANGED <<length, word_x, word_d, Connector_pool, Disjunct_pool, Clause_pool,
                 Tconnector_pool, cost_cutoff, max_disjuncts, rand_state, pc, w, c,
                 dis, ss, added>>

Next ==
  \/ BuildClause \/ BuildDisjunct \/ PoolReuse \/ EliminateDuplicates \/ SetupConnectors
  \/ ResourcesExhausted

Spec == Init /\ [][Next]_vars

\* a caller runs setup_connectors(sent) once more on the prepared sentence
SetupConnectorsAgain ==
  /\ pc = "done"
  /\ LET r == setup_connectors(0, length, Connector_pool, Disjunct_pool, word_d)
     IN /\ Connector_pool' = r.conn
        /\ Disjunct_pool' = r.disj
        /\ word_d' = r.word_d
  /\ pc' = "rerun"
  /\ UNCHANGED <<length, word_x, Clause_pool, Tconnector_pool, cost_cutoff,
                 max_disjuncts, rand_state, w, c, dis, ss, added, exhausted>>

NextRerun == Next \/ SetupConnectorsAgain

SpecRerun == Init /\ [][NextRerun]_vars

----------------------------------------------------------------------------
(* Properties of the clause and disjunct builders                          *)

\* the elements of a sequence
Range(q) == { q[k] : k \in 1..Len(q) }

\* the current word's expression and the clause list built from it
CurExp == word_x[w]
Clauses == CList(Clause_pool, c)

\* the node sets that contribute to one clause each: a CONNECTOR contributes
\* itself, an AND itself and one contribution of every operand, an OR itself
\* and one contribution of one operand
RECURSIVE Contrib(_, _)
RECURSIVE ContribAnd(_, _)
RECURSIVE ContribOr(_, _)
ContribAnd(exp, opd) ==
  IF opd = NULL THEN { {} }
  ELSE { a \cup b : a \in Contrib(exp, opd), b \in ContribAnd(exp, exp[opd].operand_next) }
ContribOr(exp, opd) ==
  IF opd = NULL THEN {}
  ELSE Contrib(exp, opd) \cup ContribOr(exp, exp[opd].operand_next)
Contrib(exp, e) ==
  IF exp[e].type = "CONNECTOR_type" THEN { {e} }
  ELSE IF exp[e].type = "AND_type"
  THEN { s \cup {e} : s \in ContribAnd(exp, exp[e].operand_first) }
  ELSE { s \cup {e} : s \in ContribOr(exp, exp[e].operand_first) }

CostOf(exp, S) == SumSet({ exp[n].cost : n \in S })

Leaves(exp, S) == { n \in S : exp[n].type = "CONNECTOR_type" }

\* the CONNECTOR nodes of the half-links of clause cl
ClauseLeaves(cl) ==
  LET ts == TList(Tconnector_pool, Clause_pool[cl].c)
  IN [ k \in 1..Len(ts) |-> Tconnector_pool[ts[k]].e ]

\* C1: the number of clauses build_clause returns for an expression is the
\* number count_clause computes for it (CONNECTOR 1, AND the product and OR
\* the sum of the operands' numbers)
C1_ClauseCount ==
  pc = "build_disjunct" => Len(Clauses) = count_clause(CurExp, 1)

C1_Witness ==
  /\ pc = "build_disjunct"
  /\ CurExp[1].type = "AND_type"
  /\ \E n \in 2..Len(CurExp) : CurExp[n].type = "OR_type"
  /\ Len(Clauses) >= 4

\* C2: the total cost of every clause is the sum of the costs of the nodes
\* of one contribution, each once, and the clause's half-links are exactly
\* the CONNECTOR nodes of that contribution, each once
C2_ClauseCost ==
  pc = "build_disjunct" =>
    \A k \in 1..Len(Clauses) :
      \E S \in Contrib(CurExp, 1) :
        /\ Clause_pool[Clauses[k]].totcost = CostOf(CurExp, S)
        /\ Range(ClauseLeaves(Clauses[k])) = Leaves(CurExp, S)
        /\ Len(ClauseLeaves(Clauses[k])) = Cardinality(Leaves(CurExp, S))

C2_Witness ==
  /\ pc = "build_disjunct"
  /\ \E k \in 1..Len(Clauses) :
       \E S \in Contrib(CurExp, 1) :
         /\ Clause_pool[Clauses[k]].totcost = CostOf(CurExp, S)
         /\ \E a, o, l \in S : /\ CurExp[a].type = "AND_type"
                               /\ CurExp[o].type = "OR_type"
                               /\ CurExp[l].type = "CONNECTOR_type"
         /\ S # 1..Len(CurExp)

\* the clauses build_disjunct has to turn into disjuncts, in list order
KeptClauses ==
  SelectSeq(Clauses, LAMBDA cl : /\ Clause_pool[cl].c # NULL
                                 /\ Clause_pool[cl].totcost <= cost_cutoff)

\* the disjuncts built for the current word
Built == DList(Disjunct_pool, dis)

\* C3: build_disjunct yields one disjunct for each clause that has a
\* half-link and a total cost of at most the cutoff, and none for any other
\* clause; a root AND without operands yields an empty list
C3_DisjunctPerClause ==
  pc = "pool_reuse" =>
    /\ Len(Built) = Len(KeptClauses)
    /\ \A k \in 1..Len(Built) :
         /\ Disjunct_pool[Built[k]].cost =
              Clause_pool[KeptClauses[Len(Built) + 1 - k]].totcost
         /\ Disjunct_pool[Built[k]].left # NULL \/ Disjunct_pool[Built[k]].right # NULL
    /\ (CurExp[1].type = "AND_type" /\ CurExp[1].operand_first = NULL) => dis = NULL

C3_Witness ==
  /\ pc = "pool_reuse"
  /\ \E k \in 1..Len(Built) : Disjunct_pool[Built[k]].cost = cost_cutoff
  /\ \E k \in 1..Len(Clauses) : Clause_pool[Clauses[k]].totcost > cost_cutoff
  /\ \E k \in 1..Len(Clauses) : Clause_pool[Clauses[k]].c = NULL

\* the half-links of clause cl that go in direction dir, in list order
DirLinks(cl, dir) ==
  SelectSeq(TList(Tconnector_pool, Clause_pool[cl].c),
            LAMBDA t : CurExp[Tconnector_pool[t].e].dir = dir)

\* the chain of disjunct d for direction dir
DirChain(d, dir) ==
  ConList(Connector_pool, IF dir = "+" THEN Disjunct_pool[d].right
                          ELSE Disjunct_pool[d].left)

\* the disjunct made from the i-th kept clause
DisjunctOf(i) == Built[Len(Built) + 1 - i]

\* the place of t in the sequence q
IndexIn(q, t) == CHOOSE k \in 1..Len(q) : q[k] = t

\* C4: two clauses that produced a disjunct each and contain the same
\* temporary half-link have, at the places of that half-link in the two
\* chains of its direction, the same connector
C4_SharedSuffix ==
  pc = "pool_reuse" /\ Len(Built) = Len(KeptClauses) =>
    \A i, j \in 1..Len(KeptClauses) :
      \A dir \in {"+", "-"} :
        LET li == DirLinks(KeptClauses[i], dir)
            lj == DirLinks(KeptClauses[j], dir)
            ci == DirChain(DisjunctOf(i), dir)
            cj == DirChain(DisjunctOf(j), dir)
        IN \A t \in Range(li) \cap Range(lj) :
             /\ IndexIn(li, t) <= Len(ci)
             /\ IndexIn(lj, t) <= Len(cj)
             /\ ci[IndexIn(li, t)] = cj[IndexIn(lj, t)]

C4_Witness ==
  /\ pc = "pool_reuse"
  /\ \E i, j \in 1..Len(KeptClauses) :
       /\ i # j
       /\ \E dir \in {"+", "-"} :
            \E t \in Range(DirLinks(KeptClauses[i], dir)) \cap Range(DirLinks(KeptClauses[j], dir)) :
              /\ IndexIn(DirLinks(KeptClauses[i], dir), t) > 1
              /\ IndexIn(DirLinks(KeptClauses[j], dir), t) = 1

----------------------------------------------------------------------------
(* Properties of the preparation                                           *)

Words == 0..(length - 1)

\* the disjuncts of word wd
WordDisjuncts(wd) == DList(Disjunct_pool, word_d[wd])

LeftChain(d) == ConList(Connector_pool, Disjunct_pool[d].left)
RightChain(d) == ConList(Connector_pool, Disjunct_pool[d].right)

\* C5 as stated: the connector at depth k from the head of a left chain has
\* nearest_word = w - 1 - k, and w + 1 + k on a right chain
C5_DepthFromHead ==
  pc = "done" =>
    \A wd \in Words : \A d \in Range(WordDisjuncts(wd)) :
      /\ \A k \in 1..Len(LeftChain(d)) :
           Connector_pool[LeftChain(d)[k]].nearest_word = wd - 1 - (k - 1)
      /\ \A k \in 1..Len(RightChain(d)) :
           Connector_pool[RightChain(d)[k]].nearest_word = wd + 1 + (k - 1)

\* C5 amended: in a surviving disjunct of word w, the connector at depth k
\* of a left chain of n connectors has nearest_word = w - (n - k), which is
\* at least 0, and the one of a right chain has w + (n - k), which is below
\* the sentence length
C5_DepthFromEnd ==
  pc = "done" =>
    \A wd \in Words : \A d \in Range(WordDisjuncts(wd)) :
      /\ \A k \in 1..Len(LeftChain(d)) :
           /\ Connector_pool[LeftChain(d)[k]].nearest_word
                = wd - (Len(LeftChain(d)) - (k - 1))
           /\ Connector_pool[LeftChain(d)[k]].nearest_word >= 0
      /\ \A k \in 1..Len(RightChain(d)) :
           /\ Connector_pool[RightChain(d)[k]].nearest_word
                = wd + (Len(RightChain(d)) - (k - 1))
           /\ Connector_pool[RightChain(d)[k]].nearest_word < length

C5_Witness ==
  /\ pc = "done"
  /\ \E wd \in Words : \E d \in Range(WordDisjuncts(wd)) : Len(RightChain(d)) = 2
  /\ \E wd \in Words : \E d \in Range(WordDisjuncts(wd)) : Len(LeftChain(d)) = 2

\* C6: setup_connectors removes from the list of word w exactly the
\* disjuncts whose left chain has more than w connectors or whose right
\* chain has more than L - 1 - w; the others stay, once each
C6_RemovedIffTooLong ==
  [][ (pc = "setup_connectors" /\ pc' = "done") =>
        \A wd \in Words :
          LET before == DList(Disjunct_pool, word_d[wd])
              after == DList(Disjunct_pool', word_d'[wd])
          IN /\ Range(after) =
                  { d \in Range(before) :
                      ~ \/ Len(LeftChain(d)) > wd
                        \/ Len(RightChain(d)) > length - 1 - wd }
             /\ Len(after) = Cardinality(Range(after))
             /\ (length = 1 => after = <<>>) ]_vars

C6_Witness ==
  /\ pc = "done"
  /\ \E wd \in Words : word_d[wd] # NULL
  /\ \E d \in 1..Len(Disjunct_pool) :
       /\ Disjunct_pool[d].right # NULL
       /\ Connector_pool[Disjunct_pool[d].right].nearest_word = length
  /\ \E d \in 1..Len(Disjunct_pool) :
       /\ Disjunct_pool[d].left # NULL
       /\ Connector_pool[Disjunct_pool[d].left].nearest_word = -1

\* C7: in every surviving disjunct a connector of a chain is shallow if
\* and only if it is the first connector of that chain
C7_ShallowIffHead ==
  pc = "done" =>
    \A wd \in Words : \A d \in Range(WordDisjuncts(wd)) :
      /\ \A k \in 1..Len(LeftChain(d)) :
           Connector_pool[LeftChain(d)[k]].shallow <=> (k = 1)
      /\ \A k \in 1..Len(RightChain(d)) :
           Connector_pool[RightChain(d)[k]].shallow <=> (k = 1)

----------------------------------------------------------------------------
(* The tracon set in use                                                   *)

\* a set just created, with the mode chosen by tracon_set_shallow; no
\* sentence is being prepared
InitTracon ==
  /\ length = 0
  /\ word_x = <<>>
  /\ word_d = <<>>
  /\ Connector_pool = <<>>
  /\ Disjunct_pool = <<>>
  /\ Clause_pool = <<>>
  /\ Tconnector_pool = <<>>
  /\ cost_cutoff = 0
  /\ max_disjuncts = 0
  /\ rand_state = 0
  /\ pc = "done"
  /\ w = 0
  /\ c = NULL
  /\ dis = NULL
  /\ \E shallow \in BOOLEAN : ss = tracon_set_shallow(shallow, tracon_set_create)
  /\ added = <<>>
  /\ exhausted = FALSE

\* a caller adds the chain clist and, as the interface asks, stores the
\* chain into the slot when the slot returned is empty
TraconSetAdd(clist) ==
  /\ Len(added) < MaxAdds
  /\ \E r \in { tracon_set_add(clist, ss) } :
       \E held \in { r.ss.table[r.p].clist } :
         /\ ss' = IF held # NULL THEN r.ss ELSE [ r.ss EXCEPT !.table[r.p].clist = clist ]
         /\ added' = Append(added, [ clist |-> clist, p |-> r.p, found |-> held # NULL,
                                     held |-> held,
                                     count_before |-> ss.count,
                                     count_after |-> r.ss.count ])
  /\ UNCHANGED sentvars

TraconSetReset ==
  /\ added # <<>>
  /\ ss' = tracon_set_reset(ss)
  /\ added' = <<>>
  /\ UNCHANGED sentvars

NextTracon == (\E clist \in Chains : TraconSetAdd(clist)) \/ TraconSetReset

SpecTracon == InitTracon /\ [][NextTracon]_vars

----------------------------------------------------------------------------
(* Properties of the tracon set                                            *)

\* the descriptors and multi flags along each chain
ChainContent ==
  [ n \in Chains |->
      LET ids == ConList(TraconConnectors, n)
      IN [ k \in 1..Len(ids) |->
             << TraconConnectors[ids[k]].desc.name, TraconConnectors[ids[k]].multi >> ] ]

\* the equality of the set: the same descriptors and multi flags and, in
\* shallow mode, the same shallow flag on the first connector
SetEqual(c1, c2) ==
  /\ ChainContent[c1] = ChainContent[c2]
  /\ ss.shallow => TraconConnectors[c1].shallow = TraconConnectors[c2].shallow

Place(n) == find_place(n, primary_hash_connectors(n, ss), ss)

Occupied == { i \in 0..(ss.size - 1) : ss.table[i].clist # NULL }

\* C8: tracon_set_add returns a slot holding a chain exactly when an equal
\* chain was added since the last reset, and the slot then holds the first
\* such chain; otherwise the slot is empty and the count has grown by one
C8_AddFindsFirst ==
  \A i \in 1..Len(added) :
    LET e == added[i]
        earlier == { j \in 1..(i - 1) : SetEqual(added[j].clist, e.clist) }
    IN /\ e.found <=> earlier # {}
       /\ e.found =>
            e.held = added[CHOOSE j \in earlier : \A k \in earlier : j <= k].clist
       /\ ~e.found => e.held = NULL /\ e.count_after = e.count_before + 1

C8_Witness ==
  /\ Len(added) = 3
  /\ added[3].found
  /\ added[3].held # added[3].clist
  /\ added[3].held = added[1].clist
  /\ ~added[2].found
  /\ ss.prime_idx = 1

\* C9: equal chains resolve to the same slot, chains that are not equal
\* never resolve to the same occupied slot, and no two occupied slots hold
\* equal chains
C9_SameSlotIffEqual ==
  /\ \A a, b \in { << n, Place(n) >> : n \in Chains } :
       /\ a[2] # NoPlace
       /\ SetEqual(a[1], b[1]) => a[2] = b[2]
       /\ (~SetEqual(a[1], b[1]) /\ a[2] = b[2]) => ss.table[a[2]].clist = NULL
  /\ \A i, j \in Occupied :
       i # j => ~SetEqual(ss.table[i].clist, ss.table[j].clist)

C9_Witness ==
  /\ \E i, j \in Occupied :
       /\ i # j
       /\ ss.table[i].hash = ss.table[j].hash
       /\ mod_func(ss, ss.table[i].hash) = i
  /\ \E c1, c2 \in Chains : c1 # c2 /\ SetEqual(c1, c2) /\ Place(c1) \in Occupied

----------------------------------------------------------------------------
(* Further properties of the clause and disjunct builders                  *)

\* the CONNECTOR nodes of e and of the operands that follow it, in the
\* left-to-right order of the expression
RECURSIVE LeafSeq(_, _)
LeafSeq(exp, e) ==
  IF e = NULL THEN <<>>
  ELSE (IF exp[e].type = "CONNECTOR_type" THEN <<e>>
        ELSE LeafSeq(exp, exp[e].operand_first))
       \o LeafSeq(exp, exp[e].operand_next)

Reverse(q) == [ k \in 1..Len(q) |-> q[Len(q) + 1 - k] ]

\* the leaves of clause cl in the left-to-right order of the expression
InExpOrder(cl) ==
  SelectSeq(LeafSeq(CurExp, 1), LAMBDA n : n \in Range(ClauseLeaves(cl)))

\* C11 as stated: the half-links of every clause, read from the clause's
\* head, list the clause's CONNECTOR leaves in the left-to-right order of
\* the expression
C11_ExpressionOrder ==
  pc = "build_disjunct" =>
    \A k \in 1..Len(Clauses) : ClauseLeaves(Clauses[k]) = InExpOrder(Clauses[k])

\* C11: the half-links of every clause, read from the clause's head, list
\* the clause's CONNECTOR leaves in the reverse of the left-to-right order
\* of the expression
C11_ReverseOrder ==
  pc = "build_disjunct" =>
    \A k \in 1..Len(Clauses) :
      ClauseLeaves(Clauses[k]) = Reverse(InExpOrder(Clauses[k]))

C11_Witness ==
  /\ pc = "build_disjunct"
  /\ \E n \in 2..Len(CurExp) : CurExp[n].type = "OR_type"
  /\ \E n \in 2..Len(CurExp) : CurExp[n].type = "AND_type"
  /\ \E k \in 1..Len(Clauses) :
       /\ Len(ClauseLeaves(Clauses[k])) >= 3
       /\ ClauseLeaves(Clauses[k]) = Reverse(InExpOrder(Clauses[k]))

\* C12: the right chain of every disjunct holds one connector for each '+'
\* half-link of its clause, in the clause's half-link order, with the
\* descriptor and the multi flag of the half-link's CONNECTOR node, and the
\* left chain the same for the '-' half-links, adopted tracons included
C12_ChainsFollowClause ==
  pc = "pool_reuse" /\ Len(Built) = Len(KeptClauses) =>
    \A i \in 1..Len(KeptClauses) :
      \A dir \in {"+", "-"} :
        LET li == DirLinks(KeptClauses[i], dir)
            ci == DirChain(DisjunctOf(i), dir)
        IN /\ Len(ci) = Len(li)
           /\ \A k \in 1..Len(ci) :
                LET e == CurExp[Tconnector_pool[li[k]].e]
                IN /\ Connector_pool[ci[k]].desc = e.condesc
                   /\ Connector_pool[ci[k]].multi = e.multi

\* a disjunct whose chain starts with connectors of its own and goes on with
\* a tracon that an earlier clause cached, and a connector with the multi flag
C12_Witness ==
  /\ pc = "pool_reuse"
  /\ \E i, j \in 1..Len(KeptClauses) :
       /\ i < j
       /\ \E dir \in {"+", "-"} :
            LET li == DirLinks(KeptClauses[i], dir)
                lj == DirLinks(KeptClauses[j], dir)
                ci == DirChain(DisjunctOf(i), dir)
                cj == DirChain(DisjunctOf(j), dir)
            IN /\ Len(cj) = Len(lj)
               /\ \E t \in Range(li) \cap Range(lj) :
                    /\ IndexIn(lj, t) > 1
                    /\ cj[IndexIn(lj, t)] = ci[IndexIn(li, t)]
                    /\ cj[1] \notin Range(ci)
  /\ \E n \in 1..Len(Connector_pool) : Connector_pool[n].multi

\* the operands of node e, in order
RECURSIVE OperandsFrom(_, _)
OperandsFrom(exp, opd) ==
  IF opd = NULL THEN <<>> ELSE <<opd>> \o OperandsFrom(exp, exp[opd].operand_next)
Operands(exp, e) == OperandsFrom(exp, exp[e].operand_first)

EmptyOr(exp, e) == exp[e].type = "OR_type" /\ exp[e].operand_first = NULL

\* the root is an OR without operands, or an AND with such an OR among its
\* operands
PrunedRoot(exp) ==
  \/ EmptyOr(exp, 1)
  \/ /\ exp[1].type = "AND_type"
     /\ \E n \in Range(Operands(exp, 1)) : EmptyOr(exp, n)

\* C13 as stated: build_clause expands an OR without operands into an empty
\* clause list, and an AND with such an OR among its operands into no
\* clauses: the call returns, and returns the empty list
C13_EmptyOrPrunes ==
  [][ pc = "build_clause" /\ pc' # pc /\ PrunedRoot(word_x[w])
        => pc' = "build_disjunct" /\ c' = NULL ]_vars

\* the lists build_disjuncts_for_exp has returned so far are those of the
\* words before w, as long as nothing else has worked on them
Returned(wd) == pc \in {"build_clause", "eliminate"} /\ wd \in 0..(w - 1)

\* C14 as stated: with max_disjuncts = M > 0 every list that
\* build_disjuncts_for_exp returns has at most M disjuncts
C14_AtMostM ==
  max_disjuncts > 0 =>
    \A wd \in Words : Returned(wd) => Len(WordDisjuncts(wd)) <= max_disjuncts

\* C14: with max_disjuncts = M > 0 and N disjuncts built, the list returned is
\* the built list when N <= M and otherwise a sub-list of the built list, in
\* the same order, that starts with its first disjunct
C14_TrimKeepsSublist ==
  [][ (pc = "pool_reuse" /\ pc' # pc /\ max_disjuncts > 0) =>
        LET before == DList(Disjunct_pool, dis)
            after == DList(Disjunct_pool', word_d'[w])
        IN /\ after = SelectSeq(before, LAMBDA d : d \in Range(after))
           /\ before # <<>> => after # <<>> /\ after[1] = before[1]
           /\ Len(before) <= max_disjuncts => after = before ]_vars

\* a returned list that lost a disjunct and kept more than max_disjuncts
C14_Witness ==
  /\ max_disjuncts > 0
  /\ \E wd \in Words :
       /\ Returned(wd)
       /\ wd = w - 1
       /\ Len(WordDisjuncts(wd)) > max_disjuncts
       /\ \E d \in 1..Len(Disjunct_pool) :
            \A v \in 0..(w - 1) : d \notin Range(WordDisjuncts(v))

\* C15: with max_disjuncts = 0 build_disjuncts_for_exp returns the whole list
\* build_disjunct made, one disjunct per kept clause whatever their number,
\* and leaves the sentence's rand_state as it was
C15_NoDownSampling ==
  [][ (pc = "pool_reuse" /\ pc' # pc /\ max_disjuncts = 0) =>
        /\ DList(Disjunct_pool', word_d'[w]) = DList(Disjunct_pool, dis)
        /\ Len(DList(Disjunct_pool', word_d'[w])) = Len(KeptClauses)
        /\ Disjunct_pool' = Disjunct_pool
        /\ rand_state' = rand_state ]_vars

\* a list of more disjuncts than any max_disjuncts setting, returned whole
\* to a sentence with a non-zero rand_state
C15_Witness ==
  /\ max_disjuncts = 0
  /\ rand_state # 0
  /\ pc = "eliminate"
  /\ Len(WordDisjuncts(w - 1)) > MaxDj + 2
  /\ Range(WordDisjuncts(w - 1)) = 1..Len(Disjunct_pool)

----------------------------------------------------------------------------
(* Further properties of the tracon set                                    *)

\* the pairs of chains that agree in length, descriptors and multi flags
\* and differ in the shallow flag of the first connector
Twins ==
  { t \in Chains \X Chains :
      /\ ChainContent[t[1]] = ChainContent[t[2]]
      /\ TraconConnectors[t[1]].shallow # TraconConnectors[t[2]].shallow }

\* the chain the entry added[i] left in its slot
InSlot(i) == IF added[i].found THEN added[i].held ELSE added[i].clist

\* C16: in shallow mode two chains that differ only in the shallow flag of
\* the first connector are different chains for tracon_set_add and
\* tracon_set_lookup, each with a slot of its own; with shallow mode off
\* they are the same chain
C16_ShallowDiscriminates ==
  \A t \in Twins :
    \E q \in { << tracon_set_lookup(t[1], ss), tracon_set_lookup(t[2], ss),
                  Place(t[1]), Place(t[2]) >> } :
      /\ ss.shallow =>
           /\ q[1] # NULL =>
                /\ TraconConnectors[q[1]].shallow = TraconConnectors[t[1]].shallow
                /\ q[3] # q[4]
           /\ \A j \in 1..Len(added) :
                added[j].clist = t[2] /\ added[j].found =>
                  TraconConnectors[added[j].held].shallow = TraconConnectors[t[2]].shallow
      /\ ~ss.shallow =>
           /\ q[1] = q[2]
           /\ q[3] = q[4]
           /\ \A i, j \in 1..Len(added) :
                i < j /\ added[i].clist = t[1] /\ added[j].clist = t[2] =>
                  added[j].found /\ added[j].held = InSlot(i)

\* shallow mode with both chains of a pair in the table, each found by its
\* own lookup
C16_Witness ==
  /\ ss.shallow
  /\ \E t \in Twins :
       /\ tracon_set_lookup(t[1], ss) = t[1]
       /\ tracon_set_lookup(t[2], ss) = t[2]
       /\ \E i, j \in 1..Len(added) :
            i < j /\ added[i].clist = t[1] /\ added[j].clist = t[2] /\ ~added[j].found

\* C17 as stated: no tracon_set_add and no tracon_set_reset makes the size of
\* the hash table smaller
C17_SizeNeverDecreases == [][ ss'.size >= ss.size ]_vars

\* C17: no tracon_set_add makes the size of the hash table smaller, and
\* tracon_set_reset sets it back to the first size of the table of primes
C17_SizeUntilReset ==
  [][ /\ added' # <<>> => ss'.size >= ss.size
      /\ added' = <<>> => ss'.size = s_prime[1] /\ ss'.prime_idx = 0 ]_vars

\* a set that was reset after its table had grown
C17_Witness ==
  /\ added = <<>>
  /\ ss.size = s_prime[1]
  /\ Cardinality(DOMAIN ss.table) > s_prime[2]

\* the entries of added that took an empty slot
Fresh == { i \in 1..Len(added) : ~added[i].found }

\* C18: right after tracon_set_reset the count is 0 and every lookup returns
\* NULL; from then on the count is the number of chains that took an empty
\* slot since the reset, and a lookup returns only a chain that was added
\* since the reset and equals the chain looked up
C18_ResetForgets ==
  /\ added = <<>> => ss.count = 0
  /\ ss.count = Cardinality(Fresh)
  /\ \A n \in Chains :
       \E r \in { tracon_set_lookup(n, ss) } :
         /\ r # NULL => \E i \in Fresh : added[i].clist = r /\ SetEqual(r, n)
         /\ r = NULL => \A i \in 1..Len(added) : ~SetEqual(added[i].clist, n)

\* after a reset of a grown table and two more adds, a chain of before the
\* reset is still in the part of the table the reset left alone, and no
\* lookup returns it
C18_Witness ==
  /\ Len(added) = 2
  /\ ss.size = s_prime[1]
  /\ \E i \in DOMAIN ss.table :
       /\ i >= ss.size
       /\ ss.table[i].clist # NULL
       /\ tracon_set_lookup(ss.table[i].clist, ss) = NULL

----------------------------------------------------------------------------
(* Properties of the builders' effects and failures                        *)

\* C19 as stated: clause building and disjunct building write to no field of
\* any node of the expression tree, which is the same before and after
\* build_disjuncts_for_exp
C19_ExpressionUntouched ==
  [][ (pc \in {"build_clause", "build_disjunct", "pool_reuse"}) => (word_x' = word_x) ]_vars

\* build_clause meets a node of unknown type in the expression exp
RECURSIVE MeetsUnknown(_, _)
MeetsUnknown(exp, e) ==
  IF e = NULL THEN FALSE
  ELSE \/ exp[e].type \notin {"AND_type", "OR_type", "CONNECTOR_type"}
       \/ MeetsUnknown(exp, exp[e].operand_first)
       \/ MeetsUnknown(exp, exp[e].operand_next)

\* C20 as stated: a node of unknown type fails the word it belongs to only,
\* and disjunct building goes on with the words after it: the run never
\* stops at such a word while words remain
C20_FailureConfined ==
  ~(pc = "aborted" /\ MeetsUnknown(CurExp, 1) /\ w + 1 < length)

----------------------------------------------------------------------------
(* Properties of prepare_to_parse as a whole                               *)

\* the places where prepare_to_parse could poll: between two words of the
\* disjunct building and between two stages
AtPoll ==
  \/ pc = "build_clause" /\ w > 0
  \/ pc \in {"eliminate", "setup_connectors"}

\* C21 as stated: once the budget is exhausted, prepare_to_parse stops at the
\* next poll (between words, between stages) and returns without running
\* the remaining work
C21_StopsWhenExhausted ==
  [][ (exhausted /\ AtPoll) =>
        /\ pc' \in {pc, "done"}
        /\ UNCHANGED <<word_x, word_d, Connector_pool, Disjunct_pool, Clause_pool,
                       Tconnector_pool>> ]_vars

\* C21: prepare_to_parse never polls: exhausted or not, every word goes
\* through clause building, disjunct building and the pool reset, then comes
\* duplicate elimination, then setup_connectors, and only setup_connectors
\* leads to the return; a run ends early only when build_clause fails an
\* assertion
C21_NeverPolls ==
  [][ pc' # pc =>
        /\ pc = "build_clause" => pc' \in {"build_disjunct", "aborted"} /\ w' = w
        /\ pc = "build_disjunct" => pc' = "pool_reuse" /\ w' = w
        /\ pc = "pool_reuse" =>
             /\ w' = w + 1
             /\ pc' = IF w + 1 < length THEN "build_clause" ELSE "eliminate"
        /\ pc = "eliminate" => pc' = "setup_connectors"
        /\ pc = "setup_connectors" => pc' = "done"
        /\ pc' = "done" => pc = "setup_connectors" /\ w = length
        /\ pc \notin {"done", "aborted"} ]_vars

\* the budget was out before the second word was begun, and the second
\* word's clauses were built all the same
C21_Witness ==
  /\ exhausted
  /\ pc = "build_disjunct"
  /\ w >= 1
  /\ c # NULL

\* the connectors on the two chains of disjunct d
ChainConnectors(d) ==
  Range(ConList(Connector_pool, Disjunct_pool[d].left))
    \cup Range(ConList(Connector_pool, Disjunct_pool[d].right))

\* C22 as stated: when prepare_to_parse has finished, every connector of
\* every surviving disjunct has the originating_gword of its disjunct
C22_ConnectorsStamped ==
  pc = "done" =>
    \A wd \in Words : \A d \in Range(WordDisjuncts(wd)) :
      \A n \in ChainConnectors(d) :
        Connector_pool[n].originating_gword = Disjunct_pool[d].originating_gword

\* C22: when prepare_to_parse has finished, every surviving disjunct has the
\* originating_gword of its word and every connector on its chains still has
\* the null originating_gword the pool gave it
C22_ConnectorsNotStamped ==
  pc = "done" =>
    \A wd \in Words : \A d \in Range(WordDisjuncts(wd)) :
      /\ Disjunct_pool[d].originating_gword = gword_set_head(wd)
      /\ \A n \in ChainConnectors(d) : Connector_pool[n].originating_gword = NULL

C22_Witness ==
  /\ pc = "done"
  /\ \E wd \in Words : \E d \in Range(WordDisjuncts(wd)) :
       /\ wd > 0
       /\ Disjunct_pool[d].originating_gword = gword_set_head(wd)
       /\ Disjunct_pool[d].left # NULL
       /\ Connector_pool[Disjunct_pool[d].left].next # NULL

\* the nearest_word and the shallow flag of every connector
DistFields(np) == [ n \in 1..Len(np) |-> << np[n].nearest_word, np[n].shallow >> ]

\* C23 as stated: a second run of setup_connectors leaves every word's
\* disjunct list, the same disjuncts in the same order, and every connector's
\* nearest_word and shallow flag as they were after the first run
C23_RerunSameOrder ==
  [][ (pc = "done" /\ pc' = "rerun") =>
        /\ \A wd \in Words :
             DList(Disjunct_pool', word_d'[wd]) = DList(Disjunct_pool, word_d[wd])
        /\ DistFields(Connector_pool') = DistFields(Connector_pool) ]_vars

\* C23: a second run of setup_connectors leaves every word's disjunct list
\* with the same disjuncts in the reverse order, and every connector's
\* nearest_word and shallow flag as they were after the first run
C23_RerunReverses ==
  [][ (pc = "done" /\ pc' = "rerun") =>
        /\ \A wd \in Words :
             DList(Disjunct_pool', word_d'[wd]) = Reverse(DList(Disjunct_pool, word_d[wd]))
        /\ DistFields(Connector_pool') = DistFields(Connector_pool) ]_vars

\* after the second run: a word with several disjuncts, a disjunct the first
\* run dropped, and a chain of two connectors
C23_Witness ==
  /\ pc = "rerun"
  /\ \E wd \in Words :
       /\ Len(WordDisjuncts(wd)) >= 2
       /\ \E d \in Range(WordDisjuncts(wd)) :
            \E n \in ChainConnectors(d) : Connector_pool[n].next # NULL
  /\ \E d \in 1..Len(Disjunct_pool) :
       /\ \A wd \in Words : d \notin Range(WordDisjuncts(wd))
       /\ \E n \in ChainConnectors(d) : Connector_pool[n].nearest_word # 0

----------------------------------------------------------------------------
(* Properties of the tracon set's table                                    *)

\* C24: when tracon_set_add grows the table, every slot in use before is in
\* the new table with its chain and its hash, tracon_set_lookup returns for
\* every chain stored before the chain it returned before, and the growth
\* itself leaves the count as it was
C24_GrowthKeepsChains ==
  [][ ss'.prime_idx > ss.prime_idx =>
        /\ \A i \in Occupied : \E j \in 0..(ss'.size - 1) : ss'.table[j] = ss.table[i]
        /\ \A n \in Chains :
             \E r \in { tracon_set_lookup(n, ss) } :
               r # NULL => tracon_set_lookup(n, ss') = r
        /\ grow_table(ss).count = ss.count
        /\ ss'.count <= ss.count + 1 ]_vars

\* a grown table that holds three chains, two of them with the same hash
C24_Witness ==
  /\ ss.prime_idx >= 1
  /\ Cardinality(Occupied) >= 3
  /\ \E i, j \in Occupied : i # j /\ ss.table[i].hash = ss.table[j].hash

\* C25: tracon_set_add grows the table, by one step of the sequence of
\* primes, exactly when 8*count > 3*size on entry; after the call
\* 8*(count - 1) <= 3*size holds and the table has an empty slot
C25_GrowsAtThreeEighths ==
  [][ Len(added') > Len(added) =>
        /\ 8 * ss.count > 3 * ss.size =>
             ss'.prime_idx = ss.prime_idx + 1 /\ ss'.size = s_prime[ss.prime_idx + 2]
        /\ ~(8 * ss.count > 3 * ss.size) =>
             ss'.prime_idx = ss.prime_idx /\ ss'.size = ss.size
        /\ 8 * (ss'.count - 1) <= 3 * ss'.size
        /\ \E i \in 0..(ss'.size - 1) : ss'.table[i].clist = NULL ]_vars

\* a table that has grown twice, and an add that found its chain and left the
\* size alone
C25_Witness ==
  /\ ss.prime_idx = 2
  /\ ss.count = 3
  /\ Len(added) = 4
  /\ added[4].found

\* find_place(c, h, ss) has returned after at most k probes
ReturnsWithin(n, k) ==
  \E h \in { primary_hash_connectors(n, ss) } :
    \/ place_found(n, ss.table[mod_func(ss, h)], h, ss)
    \/ probe_loop(n, h, ss, mod_func(ss, h), stride_hash_connectors(n, ss), k - 1) # NoPlace

\* C26: in every table that adds, resets and growth lead to, the stride of
\* every chain is in 1..size-1 and find_place returns for every chain after
\* at most size probes, with an empty slot or a slot holding an equal chain
C26_FindPlaceTerminates ==
  \A n \in Chains :
    /\ stride_hash_connectors(n, ss) \in 1..(ss.size - 1)
    /\ ReturnsWithin(n, ss.size)
    /\ \E p \in { Place(n) } :
         /\ p \in 0..(ss.size - 1)
         /\ ss.table[p].clist = NULL \/ SetEqual(ss.table[p].clist, n)

\* a chain whose place is found only at the third probe, and a chain whose
\* stride had to be made non-zero
C26_Witness ==
  /\ \E n \in Chains : ~ReturnsWithin(n, 2) /\ ReturnsWithin(n, ss.size)
  /\ \E n \in Chains : mod_func(ss, hash_connectors(17, n, ss.shallow)) = 0

----------------------------------------------------------------------------
(* Further properties of build_disjuncts_for_exp                           *)

\* q is made of elements of r, each at most once, in the order they have in r
OrderedSublist(q, r) ==
  \E f \in [ 1..Len(q) -> 1..Len(r) ] :
    /\ \A k \in 1..Len(q) : q[k] = r[f[k]]
    /\ \A k \in 1..(Len(q) - 1) : f[k] < f[k + 1]

\* C27: with max_disjuncts = M > 0 the list returned contains the head of the
\* built list, only disjuncts of the built list, each at most once and in
\* their order there, and its last disjunct has a null next link; when the
\* built list has less than M disjuncts, nothing is changed
C27_TrimmedListShape ==
  [][ (pc = "pool_reuse" /\ pc' # pc /\ max_disjuncts > 0) =>
        \E q \in { << DList(Disjunct_pool, dis), DList(Disjunct_pool', word_d'[w]) >> } :
          /\ word_d'[w] = dis
          /\ OrderedSublist(q[2], q[1])
          /\ q[2] # <<>> => Disjunct_pool'[q[2][Len(q[2])]].next = NULL
          /\ \A d \in 1..Len(Disjunct_pool) :
               /\ Disjunct_pool'[d].left = Disjunct_pool[d].left
               /\ Disjunct_pool'[d].right = Disjunct_pool[d].right
               /\ Disjunct_pool'[d].cost = Disjunct_pool[d].cost
          /\ Len(q[1]) < max_disjuncts => Disjunct_pool' = Disjunct_pool ]_vars

\* a returned list from whose middle a disjunct was dropped
C27_Witness ==
  /\ max_disjuncts > 0
  /\ pc \in {"build_clause", "eliminate"}
  /\ w >= 1
  /\ \E a, b \in Range(WordDisjuncts(w - 1)) :
       \E d \in 1..Len(Disjunct_pool) :
         /\ a < d /\ d < b
         /\ \A v \in 0..(w - 1) : d \notin Range(WordDisjuncts(v))

\* C28: after the clauses and disjuncts of an expression are built, its
\* CONNECTOR leaves have the position ids 0, 1, 2, ... in left-to-right
\* order, and every connector on a chain of a disjunct has as exp_pos the
\* id of the leaf of the half-link it stands for
C28_PositionIds ==
  pc = "pool_reuse" /\ Len(Built) = Len(KeptClauses) =>
    /\ \E ls \in { LeafSeq(CurExp, 1) } :
         \A k \in 1..Len(ls) : CurExp[ls[k]].pos = k - 1
    /\ \A i \in 1..Len(KeptClauses) :
         \A dir \in {"+", "-"} :
           \E lc \in { << DirLinks(KeptClauses[i], dir), DirChain(DisjunctOf(i), dir) >> } :
             \A k \in 1..Len(lc[2]) :
               /\ k <= Len(lc[1])
               /\ Connector_pool[lc[2][k]].exp_pos = CurExp[Tconnector_pool[lc[1][k]].e].pos
               /\ Connector_pool[lc[2][k]].exp_pos = IndexIn(LeafSeq(CurExp, 1), Tconnector_pool[lc[1][k]].e) - 1

\* an expression with three leaves and an OR, and a disjunct
\* with a chain of two connectors
C28_Witness ==
  /\ pc = "pool_reuse"
  /\ Len(LeafSeq(CurExp, 1)) >= 3
  /\ \E n \in 1..Len(CurExp) : CurExp[n].type = "OR_type"
  /\ \E k \in 1..Len(Built) :
       \E n \in ChainConnectors(Built[k]) :
         /\ Connector_pool[n].next # NULL
         /\ Connector_pool[n].exp_pos > Connector_pool[Connector_pool[n].next].exp_pos

----------------------------------------------------------------------------
(* Further properties of the preparation                                   *)

\* the number of connectors from n to the end of its chain, n included
ToEnd(n) == Len(ConList(Connector_pool, n))

\* C29: the nearest_word setup_connectors leaves in a connector it reaches
\* from a disjunct of word wd, kept or dropped, is wd minus (left chain) or
\* plus (right chain) the number of connectors from that connector to the
\* end of its chain, whichever disjunct it is reached from; the right chain
\* of a disjunct whose left chain is too long is not visited
C29_SharedDistance ==
  [][ (pc = "setup_connectors" /\ pc' = "done") =>
        \A wd \in Words : \A d \in Range(WordDisjuncts(wd)) :
          /\ \A n \in Range(LeftChain(d)) :
               Connector_pool'[n].nearest_word = wd - ToEnd(n)
          /\ wd - Len(LeftChain(d)) >= 0 =>
               \A n \in Range(RightChain(d)) :
                 Connector_pool'[n].nearest_word = wd + ToEnd(n) ]_vars

\* after setup_connectors: a connector with a value that is the head of a
\* surviving disjunct's chain and lies deeper in the chain of a disjunct that
\* is not in the list any more, and a longer chain of a surviving disjunct
C29_Witness ==
  /\ pc = "done"
  /\ \E wd \in Words : \E d1 \in Range(WordDisjuncts(wd)) :
       \E d2 \in 1..Len(Disjunct_pool) :
         /\ \A v \in Words : d2 \notin Range(WordDisjuncts(v))
         /\ Disjunct_pool[d1].left # NULL
         /\ Disjunct_pool[d1].left \in Range(LeftChain(d2))
         /\ Disjunct_pool[d1].left # Disjunct_pool[d2].left
         /\ Connector_pool[Disjunct_pool[d2].left].nearest_word < 0
  /\ \E wd \in Words : \E d \in Range(WordDisjuncts(wd)) :
       \E n \in ChainConnectors(d) : Connector_pool[n].next # NULL

\* C30: the step in which build_disjuncts_for_exp returns empties the Clause
\* and Tconnector pools and returns disjuncts whose links lead only to
\* records of the Disjunct and Connector pools; and no step of the expansion
\* of word w changes the list, a disjunct or a chain connector of a word
\* expanded before it
C30_EarlierWordsKept ==
  [][ (pc \in {"build_clause", "build_disjunct", "pool_reuse"}) =>
        /\ \A v \in 0..(w - 1) :
             /\ word_d'[v] = word_d[v]
             /\ \A d \in Range(WordDisjuncts(v)) :
                  /\ d \in DOMAIN Disjunct_pool'
                  /\ Disjunct_pool'[d] = Disjunct_pool[d]
                  /\ \A n \in ChainConnectors(d) :
                       /\ n \in DOMAIN Connector_pool'
                       /\ Connector_pool'[n] = Connector_pool[n]
        /\ (pc = "pool_reuse" /\ pc' # pc) =>
             /\ Clause_pool' = <<>>
             /\ Tconnector_pool' = <<>>
             /\ \A d \in Range(DList(Disjunct_pool', word_d'[w])) :
                  /\ Disjunct_pool'[d].next \in {NULL} \cup DOMAIN Disjunct_pool'
                  /\ \A n \in {Disjunct_pool'[d].left, Disjunct_pool'[d].right} :
                       n = NULL \/
                         \A k \in Range(ConList(Connector_pool, n)) :
                           /\ k \in DOMAIN Connector_pool'
                           /\ Connector_pool'[k].next \in {NULL} \cup DOMAIN Connector_pool' ]_vars

\* a later word's expansion about to return with clauses and temporary
\* connectors in the reused pools, while an earlier word holds a disjunct
\* with a chain of two connectors
C30_Witness ==
  /\ pc = "pool_reuse"
  /\ w >= 1
  /\ Len(Clause_pool) > 1
  /\ Len(Tconnector_pool) > 1
  /\ dis # NULL
  /\ \E d \in Range(WordDisjuncts(0)) :
       \E n \in ChainConnectors(d) : Connector_pool[n].next # NULL

====
